---- MODULE Spec2Model ----
(***************************************************************************)
(* Model of js/supabase.js: the lazily created client handle, the async    *)
(* wrapper functions around the backend SDK, the ban bookkeeping and the   *)
(* visit statistics.                                                       *)
(*                                                                         *)
(* Every async function is a call frame in a slot of `frames`.  A start    *)
(* action runs the function up to its first await (the guard on the        *)
(* handle, the first SDK request); a resume action delivers the outcome    *)
(* of the awaited SDK request and runs the function up to its next await   *)
(* or its return.  An awaited SDK request resolves without an error        *)
(* ("ok"), resolves with an error object ("error") or rejects ("throw").   *)
(* The effect of a request on the backend tables happens when it resolves  *)
(* "ok".  Instants are whole hours since an origin; the local zone has one *)
(* offset change of dstShift hours at instant dstAt.                       *)
(***************************************************************************)
EXTENDS Integers, Sequences, FiniteSets, TLC

\* ---------------------------------------------------------------- bounds
MaxInFlight == 2      \* call frames that may be in flight together
MaxPageCalls == 1     \* Spec: wrapper calls in one behaviour
MaxInits == 2         \* Spec: initSupabase calls in one behaviour
MaxSignIns == 1       \* SpecSignIn: signIn calls in one behaviour
MaxBanCalls == 2      \* SpecBans: banUser and unbanUser calls in one behaviour
MaxStatsCalls == 1    \* SpecStats: calls in one behaviour
MaxDuration == 1      \* largest ban duration (days) tried
MaxLog == 2           \* rows of an initial visit log

\* ------------------------------------------------------------- constants
Null == -1            \* JavaScript null / undefined where a number may stand
HoursPerDay == 24
WeekDays == 7

Users == {"u1", "u2"}
NoUser == "none"
BanTypes == {"temporary", "permanent"}
Durations == {Null} \cup (0 .. MaxDuration)
Outcomes == {"ok", "error", "throw"}
Slots == 1 .. MaxInFlight

VARIABLES
  SUPABASE_URL,       \* "" or the endpoint (line 1)
  SUPABASE_ANON_KEY,  \* "" or the public key (line 2)
  windowSupabase,     \* whether the SDK constructor window.supabase is present
  supabase,           \* the client handle: 0 is null, n > 0 is the n-th client
  created,            \* clients constructed by createClient so far
  inits,              \* initSupabase calls so far
  initRet,            \* what the last initSupabase call returned (Null: none yet)
  session,            \* the signed-in identity of the auth client, or NoUser
  userBans,           \* table user_bans, in insertion order
  profiles,           \* table profiles: user id -> is_banned
  siteVisits,         \* table site_visits, in insertion order
  requests,           \* SDK requests issued so far
  frames,             \* slot -> call frame
  nCalls,             \* function invocations started so far
  lastDone,           \* the call that returned last, while nothing has started since
  ev,                 \* the slot whose frame took the last step (0: none)
  now,                \* the current instant
  dstAt,              \* the instant at which the local UTC offset changes
  dstShift            \* by how many hours it changes then

vars == <<SUPABASE_URL, SUPABASE_ANON_KEY, windowSupabase, supabase, created,
          inits, initRet, session, userBans, profiles, siteVisits, requests,
          frames, nCalls, lastDone, ev, now, dstAt, dstShift>>

clientVars == <<SUPABASE_URL, SUPABASE_ANON_KEY, windowSupabase, supabase,
                created, inits, initRet>>
clockVars == <<now, dstAt, dstShift>>

\* ------------------------------------------------------------ local time
\* Date works on local wall-clock fields: getDate/setDate/setHours read and
\* write the local reading of an instant.
Offset(t) == IF t < dstAt THEN 0 ELSE dstShift
ToLocal(t) == t + Offset(t)
\* The instant of a local reading; a reading skipped or repeated by the
\* offset change is taken with the offset in force before the change.
FromLocal(l) ==
  IF l < dstAt THEN l
  ELSE IF l - dstShift >= dstAt THEN l - dstShift
  ELSE l
\* d.setDate(d.getDate() + n)
SetDate(t, n) == FromLocal(ToLocal(t) + n * HoursPerDay)
\* d.setHours(0, 0, 0, 0)
SetHoursZero(t) == FromLocal((ToLocal(t) \div HoursPerDay) * HoursPerDay)
\* d.toLocaleDateString(): the local calendar day
ToLocaleDateString(t) == ToLocal(t) \div HoursPerDay

\* ------------------------------------------------------------ call frames
\* What a call resolved to.  shape "object" is a {data, error} or {url, error}
\* or {total, today, thisWeek} object, "undefined" is a return without a
\* value, "none" is a call that has not returned.  data/error/url "absent"
\* is a key the object does not carry, "null" a key that is null.
NoRes ==
  [shape |-> "none", data |-> "absent", error |-> "absent", url |-> "absent",
   reason |-> "", suffix |-> "", date |-> Null,
   total |-> Null, today |-> Null, thisWeek |-> Null]
\* { error: { message: 'Supabase not configured' } }
NotConfigured ==
  [NoRes EXCEPT !.shape = "object", !.error = "Supabase not configured"]
\* { error: { message: 'Not authenticated' } }
NotAuthenticated ==
  [NoRes EXCEPT !.shape = "object", !.error = "Not authenticated"]
\* what an SDK request resolves to, handed on unchanged
SdkResult(o, d) ==
  IF o = "ok" THEN [NoRes EXCEPT !.shape = "object", !.data = d, !.error = "null"]
  ELSE [NoRes EXCEPT !.shape = "object", !.data = "null", !.error = "backend"]
Undefined == [NoRes EXCEPT !.shape = "undefined"]

NoCall == [fn |-> "none", user |-> NoUser, ok |-> FALSE, alone |-> FALSE, n |-> Null]

Idle ==
  [fn |-> "idle", pc |-> "idle",
   user |-> NoUser,          \* userId argument, or the identity of the credentials
   banType |-> "", duration |-> Null, reason |-> "",
   valid |-> FALSE,          \* signIn: the credentials are right
   who |-> NoUser,           \* getCurrentUser's answer / data.user
   banUntil |-> Null,        \* banUser: the expiry computed
   at |-> Null,              \* the instant read by new Date() in the call
   banActive |-> FALSE, banReason |-> "", banEnd |-> Null,   \* signIn: banData
   reqs |-> 0,               \* SDK requests this call issued
   signOuts |-> 0,           \* auth.signOut requests this call issued
   signOutOk |-> FALSE,      \* the auth.signOut request resolved without error
   visits |-> 0,             \* site_visits inserts this call issued
   deactivated |-> Null,     \* unbanUser: rows its first write deactivated
   flagWrites |-> 0,         \* profiles.is_banned updates this call issued
   out1 |-> "",              \* outcome of the user_bans write (insert, deactivation)
   out2 |-> "",              \* outcome of the profiles.is_banned write
   handle |-> 0,             \* the client handle when the call started
   flagBefore |-> FALSE,     \* is_banned of `user` when the call started
   activeBefore |-> FALSE,   \* `user` had an active ban when the call started
   banErr |-> FALSE,         \* signIn: the ban status request resolved with an error
   allOk |-> TRUE,           \* every request awaited so far resolved without error
   changed |-> FALSE,        \* a step of this call changed user_bans or profiles
   alone |-> TRUE,           \* no other call was in flight during this call
   after |-> NoCall,         \* the call that returned right before this one started
   res |-> NoRes]

Done == {"idle", "returned", "rejected"}
InFlight(f) == f.pc \notin Done
NoneInFlight(s) == \A t \in Slots \ {s} : ~InFlight(frames[t])
Summary(f) ==
  [fn |-> f.fn, user |-> f.user, ok |-> f.allOk /\ f.pc = "returned",
   alone |-> f.alone, n |-> f.deactivated]

\* A call starts in slot s, the first slot not in flight, and runs to the
\* state f (its first await, or its return when the guard on the handle
\* fails); k is the requests it issued.
Begin(s, f, k) ==
  /\ ~InFlight(frames[s])
  /\ \A t \in Slots : t < s => InFlight(frames[t])
  /\ nCalls' = nCalls + 1
  /\ requests' = requests + k
  /\ ev' = s
  /\ LET g == [f EXCEPT !.alone = NoneInFlight(s), !.after = lastDone,
                        !.reqs = k, !.handle = supabase,
                        !.flagBefore = f.user \in Users /\ profiles[f.user],
                        !.activeBefore =
                           \E i \in DOMAIN userBans :
                              userBans[i].user_id = f.user /\ userBans[i].is_active]
     IN /\ frames' = [t \in Slots |->
                       IF t = s THEN g
                       ELSE IF InFlight(frames[t])
                            THEN [frames[t] EXCEPT !.alone = FALSE]
                            ELSE frames[t]]
        /\ lastDone' = IF g.pc = "returned" THEN Summary(g) ELSE NoCall

\* The call in slot s takes a step to the state f, having issued k requests.
Step(s, f, k) ==
  /\ requests' = requests + k
  /\ ev' = s
  /\ LET g == [f EXCEPT !.reqs = @ + k] IN
     /\ frames' = [frames EXCEPT ![s] = g]
     /\ lastDone' = IF g.pc = "returned" /\ NoneInFlight(s) THEN Summary(g)
                    ELSE lastDone
  /\ UNCHANGED nCalls

Return(f, r) == [f EXCEPT !.pc = "returned", !.res = r]
Reject(f) == [f EXCEPT !.pc = "rejected", !.allOk = FALSE]
Await(f, p) == [f EXCEPT !.pc = p]
\* the outcome o of an awaited request, noted in the frame
Got(f, o) == [f EXCEPT !.allOk = @ /\ o = "ok"]

\* `if (!supabase) return ...`: the guard every wrapper starts with
Configured == supabase # 0

\* ----------------------------------------------------------- initSupabase
\* lines 6-11
initSupabase ==
  /\ inits < MaxInits
  /\ inits' = inits + 1
  /\ IF SUPABASE_URL # "" /\ SUPABASE_ANON_KEY # "" /\ windowSupabase
     THEN /\ created' = created + 1
          /\ supabase' = created + 1
     ELSE UNCHANGED <<created, supabase>>
  /\ initRet' = supabase'
  /\ ev' = 0
  /\ UNCHANGED <<SUPABASE_URL, SUPABASE_ANON_KEY, windowSupabase, session,
                 userBans, profiles, siteVisits, requests, frames, nCalls,
                 lastDone, now, dstAt, dstShift>>

\* The SDK script finishes loading: window.supabase becomes available.
SdkLoaded ==
  /\ ~windowSupabase
  /\ windowSupabase' = TRUE
  /\ ev' = 0
  /\ UNCHANGED <<SUPABASE_URL, SUPABASE_ANON_KEY, supabase, created, inits,
                 initRet, session, userBans, profiles, siteVisits, requests,
                 frames, nCalls, lastDone, now, dstAt, dstShift>>

\* ------------------------------------------- wrappers with one SDK request
\* signUp, signOut, addCategory, updateCategory, deleteCategory,
\* updateMaterial, deleteMaterial, updateUserRole: the guard, one awaited
\* request, and the SDK's result handed back.
Forward(s, fn) ==
  /\ IF Configured
     THEN Begin(s, Await([Idle EXCEPT !.fn = fn], "request"), 1)
     ELSE Begin(s, Return([Idle EXCEPT !.fn = fn], NotConfigured), 0)
  /\ UNCHANGED <<clientVars, clockVars, session, userBans, profiles, siteVisits>>

signUp(s) == Forward(s, "signUp")
signOut(s) == Forward(s, "signOut")
addCategory(s) == Forward(s, "addCategory")
updateCategory(s) == Forward(s, "updateCategory")
deleteCategory(s) == Forward(s, "deleteCategory")
updateMaterial(s) == Forward(s, "updateMaterial")
deleteMaterial(s) == Forward(s, "deleteMaterial")
updateUserRole(s) == Forward(s, "updateUserRole")

ForwardFns ==
  {"signUp", "signOut", "addCategory", "updateCategory", "deleteCategory",
   "updateMaterial", "deleteMaterial", "updateUserRole"}

\* the awaited request of one of them resolves
ForwardResume(s, o) ==
  LET f == Got(frames[s], o) IN
  /\ frames[s].fn \in ForwardFns
  /\ frames[s].pc = "request"
  /\ IF o = "throw" THEN Step(s, Reject(f), 0)
     ELSE Step(s, Return(f, SdkResult(o, "ok")), 0)
  /\ session' = IF frames[s].fn = "signOut" /\ o = "ok" THEN NoUser ELSE session
  /\ UNCHANGED <<clientVars, clockVars, userBans, profiles, siteVisits>>

\* --------------------------------------------------------- backend tables
\* the row banUser inserts (lines 245-252)
BanRow(u, admin, reason, type, until) ==
  [user_id |-> u, banned_by |-> admin, reason |-> reason, ban_type |-> type,
   ban_until |-> until, is_active |-> TRUE]
\* the row trackVisit inserts (lines 285-289)
VisitRow(u, t) == [user_id |-> u, visited_at |-> t]

ActiveBans(u) ==
  {i \in DOMAIN userBans : userBans[i].user_id = u /\ userBans[i].is_active}

\* mutant: the update writes is_active: true
DeactivateNothing(u) == userBans

\* .update({ is_active: false }).eq('user_id', u).eq('is_active', true)
Deactivate(u) ==
  [i \in DOMAIN userBans |->
     IF userBans[i].user_id = u /\ userBans[i].is_active
     THEN [userBans[i] EXCEPT !.is_active = FALSE]
     ELSE userBans[i]]

\* What the remote procedure get_user_ban_status may answer for the identity
\* u of the session: one of u's active ban records, or nothing.
NoBan == [found |-> FALSE, is_active |-> FALSE, reason |-> "", ban_until |-> Null]
GetUserBanStatus(u) ==
  IF u # NoUser /\ ActiveBans(u) # {}
  THEN {[found |-> TRUE, is_active |-> TRUE, reason |-> userBans[i].reason,
         ban_until |-> userBans[i].ban_until] : i \in ActiveBans(u)}
  ELSE {NoBan}

\* ------------------------------------------------------------------ signIn
\* lines 27-33: the guard, then the credential check is awaited
signIn(s, u, valid) ==
  /\ IF Configured
     THEN Begin(s, Await([Idle EXCEPT !.fn = "signIn", !.user = u,
                                      !.valid = valid],
                         "signInWithPassword"), 1)
     ELSE Begin(s, Return([Idle EXCEPT !.fn = "signIn", !.user = u,
                                       !.valid = valid], NotConfigured), 0)
  /\ UNCHANGED <<clientVars, clockVars, session, userBans, profiles, siteVisits>>

\* lines 30-36: the credential check resolves; on success checkUserBan (lines
\* 98-100) issues the ban status request
signInCredentials(s, o) ==
  LET f0 == frames[s]
      oo == IF o = "ok" /\ ~f0.valid THEN "error" ELSE o
      f == Got(f0, oo) IN
  /\ f0.fn = "signIn" /\ f0.pc = "signInWithPassword"
  /\ IF oo = "throw" THEN Step(s, Reject(f), 0) /\ UNCHANGED session
     ELSE IF oo = "ok"
     THEN /\ session' = f0.user
          /\ Step(s, Await([f EXCEPT !.who = f0.user], "checkUserBan"), 1)
     ELSE /\ Step(s, Return(f, SdkResult("error", "null")), 0)
          /\ UNCHANGED session
  /\ UNCHANGED <<clientVars, clockVars, userBans, profiles, siteVisits>>

\* mutant: the expiry shown as its UTC calendar day
SuspendedUtcDate(reason, until) ==
  [NoRes EXCEPT !.shape = "object", !.error = "suspended", !.reason = reason,
                !.suffix = IF until # Null THEN "Until" ELSE "Permanent",
                !.date = IF until # Null THEN until \div HoursPerDay ELSE Null]

\* the suspension error of lines 39-43
Suspended(reason, until) ==
  [NoRes EXCEPT !.shape = "object", !.error = "suspended", !.reason = reason,
                !.suffix = IF until # Null THEN "Until" ELSE "Permanent",
                !.date = IF until # Null THEN ToLocaleDateString(until) ELSE Null]

\* mutant: a failed ban status request treated like an active ban
signInBanCheckFailClosed(s, o) ==
  LET f0 == frames[s]
      f == Got(f0, o) IN
  /\ f0.fn = "signIn" /\ f0.pc = "checkUserBan"
  /\ IF o = "throw" THEN Step(s, Reject(f), 0)
     ELSE \E b \in (IF o = "ok" THEN GetUserBanStatus(session) ELSE {NoBan}) :
            IF (b.found /\ b.is_active) \/ o = "error"
            THEN Step(s, Await([f EXCEPT !.banActive = b.found,
                                         !.banErr = (o = "error"),
                                         !.banReason = b.reason,
                                         !.banEnd = b.ban_until,
                                         !.signOuts = @ + 1], "signOut"), 1)
            ELSE Step(s, Await([f EXCEPT !.visits = @ + 1, !.at = now],
                               "trackVisit"), 1)
  /\ UNCHANGED <<clientVars, clockVars, session, userBans, profiles, siteVisits>>

\* lines 100-106 and 36-45: the ban status request resolves; an active ban
\* leads to auth.signOut, anything else to trackVisit (lines 283-289)
signInBanCheck(s, o) ==
  LET f0 == frames[s]
      f == Got(f0, o) IN
  /\ f0.fn = "signIn" /\ f0.pc = "checkUserBan"
  /\ IF o = "throw" THEN Step(s, Reject(f), 0)
     ELSE \E b \in (IF o = "ok" THEN GetUserBanStatus(session) ELSE {NoBan}) :
            IF b.found /\ b.is_active
            THEN Step(s, Await([f EXCEPT !.banActive = TRUE,
                                         !.banReason = b.reason,
                                         !.banEnd = b.ban_until,
                                         !.signOuts = @ + 1], "signOut"), 1)
            ELSE Step(s, Await([f EXCEPT !.banErr = (o = "error"),
                                         !.visits = @ + 1, !.at = now],
                               "trackVisit"), 1)
  /\ UNCHANGED <<clientVars, clockVars, session, userBans, profiles, siteVisits>>

\* lines 38-43: auth.signOut resolves and the suspension error is returned
signInSignOut(s, o) ==
  LET f0 == frames[s]
      f == Got(f0, o) IN
  /\ f0.fn = "signIn" /\ f0.pc = "signOut"
  /\ IF o = "throw" THEN Step(s, Reject(f), 0)
     ELSE Step(s, Return([f EXCEPT !.signOutOk = (o = "ok")],
                         Suspended(f0.banReason, f0.banEnd)), 0)
  /\ session' = IF o = "ok" THEN NoUser ELSE session
  /\ UNCHANGED <<clientVars, clockVars, userBans, profiles, siteVisits>>

\* lines 45-48 with 285-290: the site_visits insert resolves; trackVisit
\* returns, or its rejection passes through the await of line 45
signInTrackVisit(s, o) ==
  LET f0 == frames[s]
      f == Got(f0, o) IN
  /\ f0.fn = "signIn" /\ f0.pc = "trackVisit"
  /\ IF o = "throw" THEN Step(s, Reject(f), 0)
     ELSE Step(s, Return(f, SdkResult("ok", f0.who)), 0)
  /\ siteVisits' = IF o = "ok" THEN Append(siteVisits, VisitRow(f0.who, f0.at))
                   ELSE siteVisits
  /\ UNCHANGED <<clientVars, clockVars, session, userBans, profiles>>

\* -------------------------------------------------------------- trackVisit
\* lines 283-289
trackVisit(s, u) ==
  /\ IF Configured
     THEN Begin(s, Await([Idle EXCEPT !.fn = "trackVisit", !.user = u,
                                      !.visits = 1, !.at = now],
                         "insert"), 1)
     ELSE Begin(s, Return([Idle EXCEPT !.fn = "trackVisit", !.user = u],
                          Undefined), 0)
  /\ UNCHANGED <<clientVars, clockVars, session, userBans, profiles, siteVisits>>

trackVisitInsert(s, o) ==
  LET f0 == frames[s]
      f == Got(f0, o) IN
  /\ f0.fn = "trackVisit" /\ f0.pc = "insert"
  /\ IF o = "throw" THEN Step(s, Reject(f), 0)
     ELSE Step(s, Return(f, Undefined), 0)
  /\ siteVisits' = IF o = "ok" THEN Append(siteVisits, VisitRow(f0.user, f0.at))
                   ELSE siteVisits
  /\ UNCHANGED <<clientVars, clockVars, session, userBans, profiles>>

\* ---------------------------------------------------------- getCurrentUser
\* lines 61-65, called by a configured wrapper: the identity auth.getUser
\* resolves to, null when it resolves with an error or nobody is signed in
CurrentUser(o) == IF o = "ok" THEN session ELSE NoUser

\* mutant: the guard on the handle left out
BeginWithUserUnguarded(s, f) == Begin(s, Await(f, "getUser"), 1)

\* a wrapper that starts with the guard and `await getCurrentUser()`
BeginWithUser(s, f) ==
  IF Configured
  THEN Begin(s, Await(f, "getUser"), 1)
  ELSE Begin(s, Return(f, NotConfigured), 0)

\* ----------------------------------------------------------------- banUser
\* JavaScript truthiness of the duration argument: null and 0 are falsy
Truthy(d) == d # Null /\ d # 0
\* parseInt of a whole number of days
ParseInt(d) == d
\* lines 238-243: the expiry
BanUntil(type, d, t) ==
  IF type = "temporary" /\ Truthy(d) THEN SetDate(t, ParseInt(d)) ELSE Null

\* lines 234-236
banUser(s, u, reason, type, d) ==
  /\ BeginWithUser(s, [Idle EXCEPT !.fn = "banUser", !.user = u,
                                   !.reason = reason, !.banType = type,
                                   !.duration = d])
  /\ UNCHANGED <<clientVars, clockVars, session, userBans, profiles, siteVisits>>

\* lines 236-252: getCurrentUser resolves, the expiry is computed and the
\* user_bans insert is issued
banUserAdmin(s, o) ==
  LET f0 == frames[s]
      f == Got(f0, o) IN
  /\ f0.fn = "banUser" /\ f0.pc = "getUser"
  /\ IF o = "throw" THEN Step(s, Reject(f), 0)
     ELSE Step(s, Await([f EXCEPT !.who = CurrentUser(o), !.at = now,
                                  !.banUntil = BanUntil(f0.banType, f0.duration, now)],
                        "insertBan"), 1)
  /\ UNCHANGED <<clientVars, clockVars, session, userBans, profiles, siteVisits>>

\* lines 245-258: the insert resolves; without an error the profile flag
\* update is issued, with one the error is returned
banUserInsert(s, o) ==
  LET f0 == frames[s]
      f == Got(f0, o) IN
  /\ f0.fn = "banUser" /\ f0.pc = "insertBan"
  /\ IF o = "throw" THEN Step(s, Reject(f), 0) /\ UNCHANGED userBans
     ELSE IF o = "ok"
     THEN /\ userBans' = Append(userBans, BanRow(f0.user, f0.who, f0.reason,
                                                 f0.banType, f0.banUntil))
          /\ Step(s, Await([f EXCEPT !.out1 = o, !.changed = TRUE,
                                     !.flagWrites = @ + 1], "updateFlag"), 1)
     ELSE /\ Step(s, Return([f EXCEPT !.out1 = o],
                            [NoRes EXCEPT !.shape = "object",
                                          !.error = "backend"]), 0)
          /\ UNCHANGED userBans
  /\ UNCHANGED <<clientVars, clockVars, session, profiles, siteVisits>>

\* mutant: the error of the profile flag update is returned
banUserFlagSurfaced(s, o) ==
  LET f0 == frames[s]
      f == Got(f0, o)
      p == IF o = "ok" THEN [profiles EXCEPT ![f0.user] = TRUE] ELSE profiles IN
  /\ f0.fn = "banUser" /\ f0.pc = "updateFlag"
  /\ IF o = "throw" THEN Step(s, Reject(f), 0)
     ELSE Step(s, Return([f EXCEPT !.out2 = o, !.changed = @ \/ p # profiles],
                         [NoRes EXCEPT !.shape = "object",
                                       !.error = IF o = "ok" THEN "null"
                                                 ELSE "backend"]), 0)
  /\ profiles' = p
  /\ UNCHANGED <<clientVars, clockVars, session, userBans, siteVisits>>

\* lines 255-258: the profile flag update resolves, its result is dropped
banUserFlag(s, o) ==
  LET f0 == frames[s]
      f == Got(f0, o)
      p == IF o = "ok" THEN [profiles EXCEPT ![f0.user] = TRUE] ELSE profiles IN
  /\ f0.fn = "banUser" /\ f0.pc = "updateFlag"
  /\ IF o = "throw" THEN Step(s, Reject(f), 0)
     ELSE Step(s, Return([f EXCEPT !.out2 = o, !.changed = @ \/ p # profiles],
                         [NoRes EXCEPT !.shape = "object", !.error = "null"]), 0)
  /\ profiles' = p
  /\ UNCHANGED <<clientVars, clockVars, session, userBans, siteVisits>>

\* --------------------------------------------------------------- unbanUser
\* lines 261-268
unbanUser(s, u) ==
  /\ IF Configured
     THEN Begin(s, Await([Idle EXCEPT !.fn = "unbanUser", !.user = u],
                         "deactivate"), 1)
     ELSE Begin(s, Return([Idle EXCEPT !.fn = "unbanUser", !.user = u],
                          NotConfigured), 0)
  /\ UNCHANGED <<clientVars, clockVars, session, userBans, profiles, siteVisits>>

\* lines 264-270: the deactivation resolves (its result is dropped) and the
\* profile flag update is issued
unbanUserDeactivate(s, o) ==
  LET f0 == frames[s]
      f == Got(f0, o)
      b == IF o = "ok" THEN Deactivate(f0.user) ELSE userBans
      n == IF o = "ok" THEN Cardinality(ActiveBans(f0.user)) ELSE 0 IN
  /\ f0.fn = "unbanUser" /\ f0.pc = "deactivate"
  /\ IF o = "throw" THEN Step(s, Reject(f), 0)
     ELSE Step(s, Await([f EXCEPT !.deactivated = n, !.out1 = o,
                                  !.changed = @ \/ b # userBans,
                                  !.flagWrites = @ + 1], "clearFlag"), 1)
  /\ userBans' = b
  /\ UNCHANGED <<clientVars, clockVars, session, profiles, siteVisits>>

\* mutant: the update copied from banUser writes is_banned: true
unbanUserFlagCopied(s, o) ==
  LET f0 == frames[s]
      f == Got(f0, o)
      p == IF o = "ok" THEN [profiles EXCEPT ![f0.user] = TRUE] ELSE profiles IN
  /\ f0.fn = "unbanUser" /\ f0.pc = "clearFlag"
  /\ IF o = "throw" THEN Step(s, Reject(f), 0)
     ELSE Step(s, Return([f EXCEPT !.out2 = o, !.changed = @ \/ p # profiles],
                         SdkResult(o, "null")), 0)
  /\ profiles' = p
  /\ UNCHANGED <<clientVars, clockVars, session, userBans, siteVisits>>

\* line 270: the profile flag update resolves and its result is returned
unbanUserFlag(s, o) ==
  LET f0 == frames[s]
      f == Got(f0, o)
      p == IF o = "ok" THEN [profiles EXCEPT ![f0.user] = FALSE] ELSE profiles IN
  /\ f0.fn = "unbanUser" /\ f0.pc = "clearFlag"
  /\ IF o = "throw" THEN Step(s, Reject(f), 0)
     ELSE Step(s, Return([f EXCEPT !.out2 = o, !.changed = @ \/ p # profiles],
                         SdkResult(o, "null")), 0)
  /\ profiles' = p
  /\ UNCHANGED <<clientVars, clockVars, session, userBans, siteVisits>>

\* ------------------------------------------- updateProfile and addMaterial
\* lines 77-79
updateProfile(s) ==
  /\ BeginWithUser(s, [Idle EXCEPT !.fn = "updateProfile"])
  /\ UNCHANGED <<clientVars, clockVars, session, userBans, profiles, siteVisits>>

\* lines 79-85: nobody signed in is a local error, else the update is issued
updateProfileUser(s, o) ==
  LET f0 == frames[s]
      f == [Got(f0, o) EXCEPT !.who = CurrentUser(o)] IN
  /\ f0.fn = "updateProfile" /\ f0.pc = "getUser"
  /\ IF o = "throw" THEN Step(s, Reject(f), 0)
     ELSE IF f.who = NoUser THEN Step(s, Return(f, NotAuthenticated), 0)
     ELSE Step(s, Await(f, "request"), 1)
  /\ UNCHANGED <<clientVars, clockVars, session, userBans, profiles, siteVisits>>

\* lines 156-158
addMaterial(s) ==
  /\ BeginWithUser(s, [Idle EXCEPT !.fn = "addMaterial"])
  /\ UNCHANGED <<clientVars, clockVars, session, userBans, profiles, siteVisits>>

\* lines 158-168: the insert is issued whoever is signed in (created_by: user?.id)
addMaterialUser(s, o) ==
  LET f0 == frames[s]
      f == [Got(f0, o) EXCEPT !.who = CurrentUser(o)] IN
  /\ f0.fn = "addMaterial" /\ f0.pc = "getUser"
  /\ IF o = "throw" THEN Step(s, Reject(f), 0)
     ELSE Step(s, Await(f, "request"), 1)
  /\ UNCHANGED <<clientVars, clockVars, session, userBans, profiles, siteVisits>>

\* lines 82-85 and 160-168: the table request resolves, its result is returned
TableResume(s, o) ==
  LET f0 == frames[s]
      f == Got(f0, o) IN
  /\ f0.fn \in {"updateProfile", "addMaterial"} /\ f0.pc = "request"
  /\ IF o = "throw" THEN Step(s, Reject(f), 0)
     ELSE Step(s, Return(f, SdkResult(o, "null")), 0)
  /\ UNCHANGED <<clientVars, clockVars, session, userBans, profiles, siteVisits>>

\* ------------------------------------------------------------------ uploads
UrlResult == [NoRes EXCEPT !.shape = "object", !.url = "publicUrl"]
ErrorResult == [NoRes EXCEPT !.shape = "object", !.error = "backend"]

\* lines 181-187
uploadImage(s) ==
  /\ IF Configured
     THEN Begin(s, Await([Idle EXCEPT !.fn = "uploadImage", !.at = now], "upload"), 1)
     ELSE Begin(s, Return([Idle EXCEPT !.fn = "uploadImage"], NotConfigured), 0)
  /\ UNCHANGED <<clientVars, clockVars, session, userBans, profiles, siteVisits>>

\* lines 189-195: a failed upload returns before the public URL is read
uploadImageDone(s, o) ==
  LET f0 == frames[s]
      f == Got(f0, o) IN
  /\ f0.fn = "uploadImage" /\ f0.pc = "upload"
  /\ IF o = "throw" THEN Step(s, Reject(f), 0)
     ELSE IF o = "error" THEN Step(s, Return(f, ErrorResult), 0)
     ELSE Step(s, Return(f, UrlResult), 0)
  /\ UNCHANGED <<clientVars, clockVars, session, userBans, profiles, siteVisits>>

\* lines 198-200
uploadAvatar(s) ==
  /\ BeginWithUser(s, [Idle EXCEPT !.fn = "uploadAvatar"])
  /\ UNCHANGED <<clientVars, clockVars, session, userBans, profiles, siteVisits>>

\* lines 200-206
uploadAvatarUser(s, o) ==
  LET f0 == frames[s]
      f == [Got(f0, o) EXCEPT !.who = CurrentUser(o)] IN
  /\ f0.fn = "uploadAvatar" /\ f0.pc = "getUser"
  /\ IF o = "throw" THEN Step(s, Reject(f), 0)
     ELSE IF f.who = NoUser THEN Step(s, Return(f, NotAuthenticated), 0)
     ELSE Step(s, Await([f EXCEPT !.at = now], "upload"), 1)
  /\ UNCHANGED <<clientVars, clockVars, session, userBans, profiles, siteVisits>>

\* lines 208-214: after the upload, updateProfile (line 79) asks who is signed in
uploadAvatarDone(s, o) ==
  LET f0 == frames[s]
      f == Got(f0, o) IN
  /\ f0.fn = "uploadAvatar" /\ f0.pc = "upload"
  /\ IF o = "throw" THEN Step(s, Reject(f), 0)
     ELSE IF o = "error" THEN Step(s, Return(f, ErrorResult), 0)
     ELSE Step(s, Await(f, "profileUser"), 1)
  /\ UNCHANGED <<clientVars, clockVars, session, userBans, profiles, siteVisits>>

\* lines 214-216 with 79-85: updateProfile's own answer is dropped
uploadAvatarProfileUser(s, o) ==
  LET f0 == frames[s]
      f == Got(f0, o) IN
  /\ f0.fn = "uploadAvatar" /\ f0.pc = "profileUser"
  /\ IF o = "throw" THEN Step(s, Reject(f), 0)
     ELSE IF CurrentUser(o) = NoUser THEN Step(s, Return(f, UrlResult), 0)
     ELSE Step(s, Await(f, "profileUpdate"), 1)
  /\ UNCHANGED <<clientVars, clockVars, session, userBans, profiles, siteVisits>>

uploadAvatarProfileDone(s, o) ==
  LET f0 == frames[s]
      f == Got(f0, o) IN
  /\ f0.fn = "uploadAvatar" /\ f0.pc = "profileUpdate"
  /\ IF o = "throw" THEN Step(s, Reject(f), 0)
     ELSE Step(s, Return(f, UrlResult), 0)
  /\ UNCHANGED <<clientVars, clockVars, session, userBans, profiles, siteVisits>>

\* ------------------------------------------------------------ getVisitStats
\* mutant: the comparison written > instead of >=
CountAfter(log, t) == Cardinality({i \in DOMAIN log : log[i].visited_at > t})

\* allVisits.filter(v => new Date(v.visited_at) >= t).length
CountSince(log, t) == Cardinality({i \in DOMAIN log : log[i].visited_at >= t})

\* lines 299-309, for the rows fetched and the instant read by new Date()
VisitStats(log, t) ==
  LET today == SetHoursZero(t)
      weekAgo == SetDate(t, 0 - WeekDays) IN
  [NoRes EXCEPT !.shape = "object", !.total = Len(log),
                !.today = CountSince(log, today),
                !.thisWeek = CountSince(log, weekAgo)]

\* { total: 0, today: 0, thisWeek: 0 }
ZeroStats ==
  [NoRes EXCEPT !.shape = "object", !.total = 0, !.today = 0, !.thisWeek = 0]

\* lines 292-297
getVisitStats(s) ==
  /\ IF Configured
     THEN Begin(s, Await([Idle EXCEPT !.fn = "getVisitStats"], "select"), 1)
     ELSE Begin(s, Return([Idle EXCEPT !.fn = "getVisitStats"], ZeroStats), 0)
  /\ UNCHANGED <<clientVars, clockVars, session, userBans, profiles, siteVisits>>

\* lines 295-309: the select resolves; with an error allVisits is null and
\* every count falls back to 0
getVisitStatsSelect(s, o) ==
  LET f0 == frames[s]
      f == [Got(f0, o) EXCEPT !.at = now] IN
  /\ f0.fn = "getVisitStats" /\ f0.pc = "select"
  /\ IF o = "throw" THEN Step(s, Reject(f), 0)
     ELSE IF o = "error" THEN Step(s, Return(f, ZeroStats), 0)
     ELSE Step(s, Return(f, VisitStats(siteVisits, now)), 0)
  /\ UNCHANGED <<clientVars, clockVars, session, userBans, profiles, siteVisits>>

\* ------------------------------------------------------------ initial states
Reasons == {"spam", "abuse"}
Admin == "u2"
Day(n) == n * HoursPerDay
\* the local offset moves back an hour, stays, or moves forward an hour
DstShifts == {0 - 1, 0, 1}

NoCalls ==
  /\ frames = [s \in Slots |-> Idle]
  /\ nCalls = 0
  /\ lastDone = NoCall
  /\ ev = 0
  /\ requests = 0

ClientUnset ==
  /\ supabase = 0
  /\ created = 0
  /\ inits = 0
  /\ initRet = Null

\* a page whose configuration is complete and whose initSupabase call succeeded
ClientSet ==
  /\ SUPABASE_URL = "https://project.supabase.co"
  /\ SUPABASE_ANON_KEY = "anon-key"
  /\ windowSupabase = TRUE
  /\ supabase = 1
  /\ created = 1
  /\ inits = 1
  /\ initRet = 1

Clock(nows, changes, shifts) ==
  /\ now \in nows
  /\ dstAt \in changes
  /\ dstShift \in shifts

\* user_bans as earlier banUser calls at instant t left it: at most one row
\* per user in these initial tables, active or deactivated since
EarlierBans(t, reasons) ==
  {BanRow(u, Admin, r, ty, BanUntil(ty, d, t)) :
     u \in {"u1"}, r \in reasons, ty \in BanTypes, d \in Durations}
BanTables(rows) ==
  {<<>>} \cup {<<b>> : b \in rows}
         \cup {<<[b EXCEPT !.is_active = FALSE]>> : b \in rows}
Flags(bans) ==
  [u \in Users |-> \E i \in DOMAIN bans : bans[i].user_id = u /\ bans[i].is_active]

\* -------------------------------------------------------------------- Spec
\* The page after load: the handle unset, nothing in flight, the backend
\* holding a ban of u1 or none.
Init ==
  /\ SUPABASE_URL \in {"", "https://project.supabase.co"}
  /\ SUPABASE_ANON_KEY \in {"", "anon-key"}
  /\ windowSupabase \in BOOLEAN
  /\ ClientUnset
  /\ NoCalls
  /\ session \in {NoUser, "u1"}
  /\ now = Day(8) + 5 /\ dstAt = Day(4) + 2 /\ dstShift = 1
  /\ userBans \in {<<>>, <<BanRow("u1", Admin, "abuse", "permanent", Null)>>}
  /\ profiles = Flags(userBans)
  /\ siteVisits = <<>>

Resume(s, o) ==
  \/ ForwardResume(s, o)
  \/ signInCredentials(s, o)
  \/ signInBanCheck(s, o)
  \/ signInSignOut(s, o)
  \/ signInTrackVisit(s, o)
  \/ trackVisitInsert(s, o)
  \/ banUserAdmin(s, o)
  \/ banUserInsert(s, o)
  \/ banUserFlag(s, o)
  \/ unbanUserDeactivate(s, o)
  \/ unbanUserFlag(s, o)
  \/ updateProfileUser(s, o)
  \/ addMaterialUser(s, o)
  \/ TableResume(s, o)
  \/ uploadImageDone(s, o)
  \/ uploadAvatarUser(s, o)
  \/ uploadAvatarDone(s, o)
  \/ uploadAvatarProfileUser(s, o)
  \/ uploadAvatarProfileDone(s, o)

Next ==
  \/ initSupabase
  \/ SdkLoaded
  \/ \E s \in {1} :
       /\ nCalls < MaxPageCalls
       /\ \/ signUp(s)
          \/ signOut(s)
          \/ addCategory(s)
          \/ updateCategory(s)
          \/ deleteCategory(s)
          \/ updateMaterial(s)
          \/ deleteMaterial(s)
          \/ updateUserRole(s)
          \/ updateProfile(s)
          \/ addMaterial(s)
          \/ uploadImage(s)
          \/ uploadAvatar(s)
          \/ \E valid \in BOOLEAN : signIn(s, "u1", valid)
          \/ \E u \in {"u1", NoUser} : trackVisit(s, u)
          \/ \E ty \in BanTypes, d \in {Null, 1} : banUser(s, "u1", "spam", ty, d)
          \/ unbanUser(s, "u1")
  \/ \E s \in {1}, o \in Outcomes : Resume(s, o)

Spec == Init /\ [][Next]_vars

\* -------------------------------------------------------------- SpecSignIn
\* Sign-in on a configured page, against the bans earlier banUser calls left.
InitSignIn ==
  /\ ClientSet
  /\ NoCalls
  /\ Clock({Day(8) + 23}, {Day(8) + 2}, DstShifts)
  /\ session = NoUser
  /\ userBans \in BanTables(EarlierBans(now - Day(1), Reasons))
  /\ profiles = Flags(userBans)
  /\ siteVisits = <<>>

NextSignIn ==
  \E s \in Slots :
    \/ /\ nCalls < MaxSignIns
       /\ \E u \in Users, valid \in BOOLEAN : signIn(s, u, valid)
    \/ \E o \in Outcomes :
         \/ signInCredentials(s, o)
         \/ signInBanCheck(s, o)
         \/ signInSignOut(s, o)
         \/ signInTrackVisit(s, o)

SpecSignIn == InitSignIn /\ [][NextSignIn]_vars

\* ---------------------------------------------------------------- SpecBans
\* An admin page banning and unbanning u1; calls may overlap.
InitBans ==
  /\ ClientSet
  /\ NoCalls
  /\ Clock({Day(8) + 5}, {Day(9) + 2}, {0})
  /\ session = Admin
  /\ userBans \in BanTables({b \in EarlierBans(now - Day(1), {"abuse"}) :
                              b.ban_type = "permanent"})
  /\ profiles = Flags(userBans)
  /\ siteVisits = <<>>

NextBans ==
  \E s \in Slots :
    \/ /\ nCalls < MaxBanCalls
       /\ \/ banUser(s, "u1", "spam", "temporary", 1)
          \/ banUser(s, "u1", "spam", "permanent", Null)
          \/ unbanUser(s, "u1")
    \/ \E o \in Outcomes :
         \/ banUserAdmin(s, o)
         \/ banUserInsert(s, o)
         \/ banUserFlag(s, o)
         \/ unbanUserDeactivate(s, o)
         \/ unbanUserFlag(s, o)

SpecBans == InitBans /\ [][NextBans]_vars

\* ------------------------------------------------------------- SpecBanUser
\* One banUser call with every ban type and duration, the local offset
\* changing or not before the expiry.
InitBanUser ==
  /\ ClientSet
  /\ NoCalls
  /\ Clock({Day(8) + 1, Day(8) + 5}, {Day(9) + 2}, DstShifts)
  /\ session \in {NoUser, Admin}
  /\ userBans = <<>>
  /\ profiles = [u \in Users |-> FALSE]
  /\ siteVisits = <<>>

NextBanUser ==
  \E s \in Slots :
    \/ /\ nCalls = 0
       /\ \E r \in Reasons, ty \in BanTypes, d \in Durations :
            banUser(s, "u1", r, ty, d)
    \/ \E o \in Outcomes :
         \/ banUserAdmin(s, o)
         \/ banUserInsert(s, o)
         \/ banUserFlag(s, o)

SpecBanUser == InitBanUser /\ [][NextBanUser]_vars

\* --------------------------------------------------------------- SpecStats
\* The instants a visit log is drawn from: around the instant 7 x 24 hours
\* before t, around the midnight before t, and t itself.
Stamps(t) ==
  {t - Day(WeekDays) - 1, t - Day(WeekDays), t - Day(WeekDays) + 1,
   Day(t \div HoursPerDay) - 1, Day(t \div HoursPerDay),
   Day(t \div HoursPerDay) + 1, t}
Logs(t) ==
  UNION {[1 .. n -> {VisitRow(NoUser, x) : x \in Stamps(t)}] : n \in 0 .. MaxLog}

InitStats ==
  /\ SUPABASE_URL = "https://project.supabase.co"
  /\ SUPABASE_ANON_KEY = "anon-key"
  /\ windowSupabase = TRUE
  /\ \/ ClientUnset
     \/ supabase = 1 /\ created = 1 /\ inits = 1 /\ initRet = 1
  /\ NoCalls
  /\ Clock({Day(8), Day(8) + 5}, {Day(4) + 2, Day(8) + 2}, DstShifts)
  /\ session = NoUser
  /\ userBans = <<>>
  /\ profiles = [u \in Users |-> FALSE]
  /\ siteVisits \in Logs(now)

NextStats ==
  \E s \in Slots :
    \/ /\ nCalls < MaxStatsCalls
       /\ \/ getVisitStats(s)
          \/ trackVisit(s, "u1")
    \/ \E o \in Outcomes :
         \/ getVisitStatsSelect(s, o)
         \/ trackVisitInsert(s, o)

SpecStats == InitStats /\ [][NextStats]_vars

\* ================================================================== claims
MutatingFns ==
  {"signUp", "signIn", "signOut", "updateProfile", "addCategory",
   "updateCategory", "deleteCategory", "addMaterial", "updateMaterial",
   "deleteMaterial", "uploadImage", "uploadAvatar", "updateUserRole",
   "banUser", "unbanUser", "trackVisit"}

\* a call made while the client handle was unset
CalledUnset(f) == f.fn \in MutatingFns /\ f.handle = 0

\* C1 as stated: a call of any mutating function, trackVisit included, made
\* while the handle is unset returns the 'Supabase not configured' error
\* object and issues no backend request.
C1_EveryMutatingFnReturnsNotConfigured ==
  \A s \in Slots :
    CalledUnset(frames[s]) =>
      /\ frames[s].pc = "returned"
      /\ frames[s].res = NotConfigured
      /\ frames[s].reqs = 0

\* C1 amended: a call of a mutating function other than trackVisit made while
\* the handle is unset returns the 'Supabase not configured' error object;
\* trackVisit returns without a value; none of them issues a backend request,
\* and no backend request is ever issued while the handle is unset.
C1_NotConfiguredExceptTrackVisit ==
  /\ \A s \in Slots :
       CalledUnset(frames[s]) =>
         /\ frames[s].pc = "returned"
         /\ frames[s].reqs = 0
         /\ frames[s].fn # "trackVisit" => frames[s].res = NotConfigured
         /\ frames[s].fn = "trackVisit" => frames[s].res = Undefined
  /\ supabase = 0 => requests = 0

\* C1 witness: banUser was called on a page whose handle is unset and has
\* returned.
C1_Witness ==
  \E s \in Slots :
    /\ frames[s].fn = "banUser"
    /\ frames[s].handle = 0
    /\ frames[s].pc = "returned"
    /\ supabase = 0

\* C7 as stated: over any sequence of initSupabase calls at most one client
\* is ever constructed, every call returns the handle, and the handle stays
\* the first client constructed (or null while none was).
C7_HandleCreatedOnce ==
  /\ created <= 1
  /\ supabase = created
  /\ inits > 0 => initRet = supabase

C3_VisitFailureNeverSurfaces ==
  \A s \in Slots :
    LET f == frames[s] IN
    (f.fn = "signIn" /\ f.visits > 0 /\ ~InFlight(f)) =>
      /\ f.visits = 1
      /\ f.pc = "returned"
      /\ f.res = SdkResult("ok", f.user)

\* C9: a signIn whose ban status request resolved with an error issues no
\* auth.signOut request, issues exactly one site_visits insert, keeps the
\* session of the identity that signed in, and what it returns is the
\* successful result of the credential check.
C9_BanCheckFailsOpen ==
  \A s \in Slots :
    LET f == frames[s] IN
    (f.fn = "signIn" /\ f.banErr) =>
      /\ f.signOuts = 0
      /\ f.visits = 1
      /\ (ev = s /\ f.alone) => session = f.user
      /\ f.pc = "returned" => f.res = SdkResult("ok", f.user)

\* C9 witness: a signIn of an identity with an active ban record returned
\* the successful result after its ban status request failed, and the
\* identity is still signed in.
C9_Witness ==
  \E s \in Slots :
    /\ frames[s].fn = "signIn"
    /\ frames[s].banErr
    /\ frames[s].pc = "returned"
    /\ frames[s].res.error = "null"
    /\ ActiveBans(frames[s].user) # {}
    /\ session = frames[s].user

\* the call in slot s has returned and nothing has happened since
JustReturned(s) == ev = s /\ frames[s].pc = "returned"
\* the row the banUser call in slot s has just inserted
JustInserted(s) ==
  /\ ev = s
  /\ frames[s].fn = "banUser"
  /\ frames[s].pc = "updateFlag"

\* C4 as stated: banUser(u, reason, 'temporary', d) inserts a record whose
\* expiry is d days after the instant of the call (to the local calendar
\* day), banUser without a duration or with another type inserts a record
\* without expiry, and is_banned is written only after a successful insert.
C4_ExpiryIsNowPlusDuration ==
  \A s \in Slots :
    LET f == frames[s] IN
    /\ JustInserted(s) =>
         LET b == userBans[Len(userBans)] IN
         /\ (f.banType = "temporary" /\ f.duration # Null) =>
              /\ b.ban_until # Null
              /\ ToLocaleDateString(b.ban_until)
                   = ToLocaleDateString(f.at) + f.duration
         /\ (f.banType # "temporary" \/ f.duration = Null) => b.ban_until = Null
    /\ (f.fn = "banUser" /\ f.flagWrites > 0) => f.out1 = "ok"

\* The part of C4 the code keeps, for the record: with a duration other
\* than 0 the expiry is that many local calendar days after the call, to the
\* hour when the local offset does not change in between; with the duration
\* 0 or absent, or another type, there is no expiry; the flag is written only
\* after a successful insert.
BanExpiryForNonZeroDuration ==
  \A s \in Slots :
    LET f == frames[s] IN
    /\ JustInserted(s) =>
         LET b == userBans[Len(userBans)] IN
         /\ b.user_id = f.user /\ b.reason = f.reason /\ b.is_active
         /\ (f.banType = "temporary" /\ f.duration \notin {Null, 0}) =>
              /\ b.ban_until # Null
              /\ ToLocaleDateString(b.ban_until)
                   = ToLocaleDateString(f.at) + f.duration
              /\ Offset(b.ban_until) = Offset(f.at) =>
                   b.ban_until = f.at + Day(f.duration)
         /\ (f.banType # "temporary" \/ f.duration \in {Null, 0}) =>
              b.ban_until = Null
    /\ (f.fn = "banUser" /\ f.flagWrites > 0) => f.out1 = "ok"

\* C5: an unbanUser(u) call that overlapped no other call and whose writes
\* succeeded leaves u without an active ban record and with is_banned false;
\* an unbanUser(u) call made right after such a call deactivates no row,
\* still issues its is_banned write, and changes neither user_bans nor
\* profiles.
C5_UnbanTwiceIdempotent ==
  \A s \in Slots :
    LET f == frames[s] IN
    (f.fn = "unbanUser" /\ f.alone) =>
      /\ (JustReturned(s) /\ f.allOk) =>
           /\ ActiveBans(f.user) = {}
           /\ profiles[f.user] = FALSE
           /\ f.flagWrites = 1
      /\ (f.after.fn = "unbanUser" /\ f.after.user = f.user
            /\ f.after.ok /\ f.after.alone) =>
           /\ ~f.changed
           /\ f.deactivated \in {Null, 0}
           /\ f.pc \in {"clearFlag", "returned"} =>
                f.deactivated = 0 /\ f.flagWrites = 1
           /\ ev = s => ActiveBans(f.user) = {} /\ profiles[f.user] = FALSE

\* C5 witness: a second unbanUser(u) call has returned right after a first
\* one that deactivated a row; it found nothing to deactivate.
C5_Witness ==
  \E s \in Slots :
    /\ frames[s].fn = "unbanUser"
    /\ JustReturned(s)
    /\ frames[s].allOk
    /\ frames[s].after.fn = "unbanUser"
    /\ frames[s].after.ok
    /\ frames[s].after.n = 1
    /\ frames[s].deactivated = 0
    /\ frames[s].flagWrites = 1

\* C8: a banUser call whose insert succeeded and whose is_banned update
\* resolved with an error returns {error: null}; when it overlapped no other
\* call the user then has an active ban record and the profile flag is as it
\* was before the call, false for a profile not flagged before.  An
\* unbanUser call whose deactivation resolved with an error and whose
\* is_banned update succeeded leaves is_banned false, and when it overlapped
\* no other call every ban record active before is still active.
C8_NoCompensatingRollback ==
  \A s \in Slots :
    LET f == frames[s] IN
    /\ (f.fn = "banUser" /\ f.pc = "returned" /\ f.out1 = "ok"
          /\ f.out2 = "error") =>
         /\ f.res = [NoRes EXCEPT !.shape = "object", !.error = "null"]
         /\ (ev = s /\ f.alone) =>
              /\ ActiveBans(f.user) # {}
              /\ profiles[f.user] = f.flagBefore
    /\ (f.fn = "unbanUser" /\ f.pc = "returned" /\ f.out1 = "error"
          /\ f.out2 = "ok") =>
         /\ f.res = SdkResult("ok", "null")
         /\ ev = s => profiles[f.user] = FALSE
         /\ (ev = s /\ f.alone) => (ActiveBans(f.user) # {}) = f.activeBefore

\* C8 witness: banUser has returned {error: null} after its flag update
\* failed, leaving an active ban record on a profile whose is_banned is false.
C8_Witness ==
  \E s \in Slots :
    /\ frames[s].fn = "banUser"
    /\ JustReturned(s)
    /\ frames[s].out1 = "ok"
    /\ frames[s].out2 = "error"
    /\ frames[s].res.error = "null"
    /\ ActiveBans(frames[s].user) # {}
    /\ profiles[frames[s].user] = FALSE

\* C10: when a banUser(u) or unbanUser(u) call that overlapped no other call
\* returns with both its writes succeeded, is_banned of u is true exactly
\* when u has an active ban record.  (The overlapping half of the claim is
\* the reachability of C10_Witness.)
C10_SequentialCallsConsistent ==
  \A s \in Slots :
    LET f == frames[s] IN
    (f.fn \in {"banUser", "unbanUser"} /\ JustReturned(s) /\ f.alone
       /\ f.out1 = "ok" /\ f.out2 = "ok") =>
      profiles[f.user] = (ActiveBans(f.user) # {})

\* C10 witness: a banUser(u) and an unbanUser(u) call overlapped, all four
\* writes succeeded, both returned success, and u has an active ban record
\* while is_banned is false.
C10_Witness ==
  \E s, t \in Slots :
    /\ frames[s].fn = "banUser" /\ frames[t].fn = "unbanUser"
    /\ frames[s].user = frames[t].user
    /\ frames[s].pc = "returned" /\ frames[t].pc = "returned"
    /\ ~frames[s].alone /\ ~frames[t].alone
    /\ frames[s].out1 = "ok" /\ frames[s].out2 = "ok"
    /\ frames[t].out1 = "ok" /\ frames[t].out2 = "ok"
    /\ frames[s].res.error = "null" /\ frames[t].res.error = "null"
    /\ ActiveBans(frames[s].user) # {}
    /\ profiles[frames[s].user] = FALSE

RECURSIVE NaiveCount(_, _)
\* rows of the log stamped at or after t, one row at a time
NaiveCount(log, t) ==
  IF log = <<>> THEN 0
  ELSE (IF Head(log).visited_at >= t THEN 1 ELSE 0) + NaiveCount(Tail(log), t)

\* the first instant at which the local clock reads l or later
FirstInstantReading(l) ==
  CHOOSE w \in (l - 2) .. (l + 2) : ToLocal(w) >= l /\ ToLocal(w - 1) < l
\* local midnight of the day of t
LocalMidnight(t) == FirstInstantReading(Day(ToLocal(t) \div HoursPerDay))

\* a getVisitStats call on a configured page has just returned what it
\* computed from the rows fetched
StatsReturned(s) ==
  /\ frames[s].fn = "getVisitStats"
  /\ JustReturned(s)
  /\ frames[s].handle # 0
  /\ frames[s].allOk

\* getVisitStats returns zeros when the log is absent or empty
StatsZeroWithoutLog(s) ==
  LET f == frames[s] IN
  (f.fn = "getVisitStats" /\ JustReturned(s)
     /\ (f.handle = 0 \/ ~f.allOk \/ siteVisits = <<>>)) => f.res = ZeroStats

\* C6 as stated: total is the number of rows, today the number of rows
\* stamped at or after local midnight, thisWeek the number of rows stamped at
\* or after the current instant minus 7 x 24 hours; no log, all zero.
C6_CountsMatchNaiveWindows ==
  \A s \in Slots :
    /\ StatsZeroWithoutLog(s)
    /\ StatsReturned(s) =>
         /\ frames[s].res.total = Len(siteVisits)
         /\ frames[s].res.today = NaiveCount(siteVisits, LocalMidnight(now))
         /\ frames[s].res.thisWeek = NaiveCount(siteVisits, now - Day(WeekDays))

\* C6 amended: total and today as stated; thisWeek is the number of rows
\* stamped at or after the first instant at which the local clock reads what
\* it reads now, 7 calendar days earlier.  That instant is the current one
\* minus 7 x 24 hours when the local offset is the same now as it was just
\* before that instant, so that a row stamped exactly 7 x 24 hours ago counts
\* then; no log, all zero.
C6_CountsMatchLocalCalendarWindows ==
  \A s \in Slots :
    /\ StatsZeroWithoutLog(s)
    /\ StatsReturned(s) =>
         /\ frames[s].res.total = Len(siteVisits)
         /\ frames[s].res.today = NaiveCount(siteVisits, LocalMidnight(now))
         /\ frames[s].res.thisWeek
              = NaiveCount(siteVisits,
                           FirstInstantReading(ToLocal(now) - Day(WeekDays)))
         /\ Offset(now) = Offset(now - Day(WeekDays) - 1) =>
              frames[s].res.thisWeek = NaiveCount(siteVisits, now - Day(WeekDays))

\* C6 witness: with no offset change, getVisitStats has returned for a log
\* holding a row stamped exactly 7 x 24 hours ago and a row stamped exactly
\* at local midnight, and counted both in thisWeek and the second in today.
C6_Witness ==
  \E s \in Slots :
    /\ StatsReturned(s)
    /\ dstShift = 0
    /\ now > LocalMidnight(now)
    /\ Len(siteVisits) = 2
    /\ siteVisits[1].visited_at = now - Day(WeekDays)
    /\ siteVisits[2].visited_at = LocalMidnight(now)
    /\ frames[s].res.total = 2
    /\ frames[s].res.today = 1
    /\ frames[s].res.thisWeek = 2

====
